---- MODULE Spec2Model ----
(***************************************************************************)
(* Model of kbgen (src/kbgen/generator.py): the note graph, the backlink   *)
(* pass, tag grouping and tag path assignment, the excerpt, and the        *)
(* generate_site pipeline around them.                                     *)
(*                                                                         *)
(* A Python str is a sequence of one-character strings; the character      *)
(* U+2026 (horizontal ellipsis) is written "U+2026" and the grave accent   *)
(* U+0060 is written "U+0060".  A pathlib path is the sequence of its      *)
(* components, each component a str.                                       *)
(***************************************************************************)
EXTENDS Integers, Sequences, FiniteSets, TLC

(***************************************************************************)
(* Bounds of the model.                                                    *)
(***************************************************************************)
MaxFiles == 3
MaxTags == 3
MaxTokens == 3
MaxLength == 3
MaxLines == 4

(***************************************************************************)
(* Characters and str operations.                                          *)
(***************************************************************************)
ELLIPSIS == "U+2026"
BACKTICK == "U+0060"

CodePoint ==
  ("\n" :> 10) @@ (" " :> 32) @@ ("!" :> 33) @@ ("#" :> 35) @@ ("%" :> 37) @@
  ("(" :> 40) @@ (")" :> 41) @@ ("," :> 44) @@ ("-" :> 45) @@ ("." :> 46) @@
  ("/" :> 47) @@ ("0" :> 48) @@ ("1" :> 49) @@ ("2" :> 50) @@ ("3" :> 51) @@
  ("4" :> 52) @@ ("5" :> 53) @@ ("6" :> 54) @@ ("7" :> 55) @@ ("8" :> 56) @@
  ("9" :> 57) @@ (":" :> 58) @@ ("A" :> 65) @@ ("B" :> 66) @@ ("C" :> 67) @@
  ("D" :> 68) @@ ("E" :> 69) @@ ("F" :> 70) @@ ("P" :> 80) @@ ("T" :> 84) @@
  ("X" :> 88) @@ ("[" :> 91) @@ ("]" :> 93) @@ ("_" :> 95) @@
  (BACKTICK :> 96) @@ ("a" :> 97) @@ ("b" :> 98) @@ ("c" :> 99) @@
  ("d" :> 100) @@ ("e" :> 101) @@ ("f" :> 102) @@ ("g" :> 103) @@
  ("h" :> 104) @@ ("i" :> 105) @@ ("l" :> 108) @@ ("m" :> 109) @@
  ("p" :> 112) @@ ("s" :> 115) @@ ("t" :> 116) @@ ("u" :> 117) @@
  ("x" :> 120) @@ ("~" :> 126) @@ (ELLIPSIS :> 8230)

\* str.lower() on one character
Lower(c) ==
  CASE c = "A" -> "a"
    [] c = "B" -> "b"
    [] c = "C" -> "c"
    [] c = "D" -> "d"
    [] c = "E" -> "e"
    [] c = "F" -> "f"
    [] c = "P" -> "p"
    [] c = "T" -> "t"
    [] c = "X" -> "x"
    [] OTHER -> c

StrLower(s) == [i \in 1..Len(s) |-> Lower(s[i])]

IsSpace(c) == c \in {" ", "\n"}

Min(S) == CHOOSE x \in S : \A y \in S : x <= y

Max(S) == CHOOSE x \in S : \A y \in S : x >= y

\* s < t on str: by code point at the first difference, else by length
StrLess(s, t) ==
  LET n == IF Len(s) < Len(t) THEN Len(s) ELSE Len(t)
      diff == {k \in 1..n : s[k] # t[k]}
  IN IF diff = {} THEN Len(s) < Len(t)
     ELSE CodePoint[s[Min(diff)]] < CodePoint[t[Min(diff)]]

StrLeq(s, t) == s = t \/ StrLess(s, t)

RECURSIVE Join(_, _)
Join(sep, ss) ==
  IF ss = <<>> THEN <<>>
  ELSE IF Len(ss) = 1 THEN ss[1]
  ELSE ss[1] \o sep \o Join(sep, Tail(ss))

\* str.lstrip(), str.rstrip(), str.strip()
LStrip(s) ==
  LET keep == {k \in 1..Len(s) : ~IsSpace(s[k])}
  IN IF keep = {} THEN <<>> ELSE SubSeq(s, Min(keep), Len(s))

RStrip(s) ==
  LET keep == {k \in 1..Len(s) : ~IsSpace(s[k])}
  IN IF keep = {} THEN <<>> ELSE SubSeq(s, 1, Max(keep))

Strip(s) == LStrip(RStrip(s))

\* the pieces of s between the positions at which IsSep holds
SplitAt(s, IsSep(_)) ==
  LET at(k) == IsSep(s[k])
      cuts == <<0>> \o SelectSeq([k \in 1..Len(s) |-> k], at) \o <<Len(s) + 1>>
  IN [n \in 1..(Len(cuts) - 1) |-> SubSeq(s, cuts[n] + 1, cuts[n + 1] - 1)]

\* str.split(sep) for a one-character separator
Split(s, sep) == LET IsSep(c) == c = sep IN SplitAt(s, IsSep)

NonEmpty(s) == s # <<>>

\* str.split(): the maximal runs of non-whitespace characters
SplitWhitespace(s) == SelectSeq(SplitAt(s, IsSpace), NonEmpty)

\* the first index >= i with s[index] = c, or 0
IndexFrom(s, c, i) ==
  LET found == {k \in i..Len(s) : s[k] = c}
  IN IF found = {} THEN 0 ELSE Min(found)

\* str.rfind(c), 1-based, 0 when absent
RFind(s, c) ==
  LET found == {k \in 1..Len(s) : s[k] = c}
  IN IF found = {} THEN 0 ELSE Max(found)

StartsWith(s, p) == Len(s) >= Len(p) /\ SubSeq(s, 1, Len(p)) = p

Contains(s, p) == \E i \in 1..(Len(s) - Len(p) + 1) : SubSeq(s, i, i + Len(p) - 1) = p

SeqToSet(s) == {s[i] : i \in 1..Len(s)}

(***************************************************************************)
(* pathlib: PurePosixPath parsing, suffix, with_suffix, resolve,           *)
(* relative_to, as_posix, ordering.                                        *)
(***************************************************************************)
MD == <<".", "m", "d">>

RECURSIVE DropEmptyAndDot(_)
DropEmptyAndDot(parts) ==
  IF parts = <<>> THEN <<>>
  ELSE IF Head(parts) \in {<<>>, <<".">>} THEN DropEmptyAndDot(Tail(parts))
  ELSE <<Head(parts)>> \o DropEmptyAndDot(Tail(parts))

\* Path(text): whether it is absolute, and its components
PathOf(text) ==
  [abs |-> text # <<>> /\ text[1] = "/", parts |-> DropEmptyAndDot(Split(text, "/"))]

PathName(parts) == IF parts = <<>> THEN <<>> ELSE parts[Len(parts)]

\* PurePath.suffix
Suffix(parts) ==
  LET name == PathName(parts)
      i == RFind(name, ".")
  IN IF 1 < i /\ i < Len(name) THEN SubSeq(name, i, Len(name)) ELSE <<>>

\* PurePath.stem
Stem(parts) ==
  LET name == PathName(parts)
      i == RFind(name, ".")
  IN IF 1 < i /\ i < Len(name) THEN SubSeq(name, 1, i - 1) ELSE name

\* PurePath.with_suffix(suffix) of a path with a non-empty name
WithSuffix(parts, suffix) ==
  LET name == PathName(parts)
      old == Suffix(parts)
      new == IF old = <<>> THEN name \o suffix
             ELSE SubSeq(name, 1, Len(name) - Len(old)) \o suffix
  IN SubSeq(parts, 1, Len(parts) - 1) \o <<new>>

\* Path.resolve() of an absolute path in a tree without symbolic links
RECURSIVE Normalize(_, _)
Normalize(parts, acc) ==
  IF parts = <<>> THEN acc
  ELSE IF Head(parts) = <<".", ".">>
       THEN Normalize(Tail(parts), IF acc = <<>> THEN <<>> ELSE SubSeq(acc, 1, Len(acc) - 1))
  ELSE Normalize(Tail(parts), Append(acc, Head(parts)))

Resolve(parts) == Normalize(parts, <<>>)

IsRelativeTo(parts, root) == Len(parts) >= Len(root) /\ SubSeq(parts, 1, Len(root)) = root

RelativeTo(parts, root) == SubSeq(parts, Len(root) + 1, Len(parts))

AsPosix(parts) == IF parts = <<>> THEN <<".">> ELSE Join(<<"/">>, parts)

\* PurePath.__lt__: component-wise comparison
RECURSIVE PathLess(_, _)
PathLess(p, q) ==
  IF q = <<>> THEN FALSE
  ELSE IF p = <<>> THEN TRUE
  ELSE IF p[1] # q[1] THEN StrLess(p[1], q[1])
  ELSE PathLess(Tail(p), Tail(q))

(***************************************************************************)
(* Front matter and metadata (_split_front_matter, _parse_metadata,        *)
(* _extract_heading).  A metadata dict is a function from key to value; a  *)
(* value is a str, or for the key "tags" a list of str.                    *)
(***************************************************************************)
DELIM == <<"-", "-", "-">>
KEY_TAGS == <<"t", "a", "g", "s">>
KEY_TITLE == <<"t", "i", "t", "l", "e">>

\* str.splitlines() for "\n" line ends
SplitLines(text) ==
  LET pieces == Split(text, "\n")
  IN IF pieces[Len(pieces)] = <<>> THEN SubSeq(pieces, 1, Len(pieces) - 1) ELSE pieces

RECURSIVE StripAll(_)
StripAll(ss) == IF ss = <<>> THEN <<>> ELSE <<Strip(Head(ss))>> \o StripAll(Tail(ss))

\* value.split(",") stripped, empty pieces dropped
ParseTagList(value) == SelectSeq(StripAll(Split(value, ",")), NonEmpty)

EmptyDict == [k \in {} |-> <<>>]

RECURSIVE ParseMetadataFrom(_, _)
ParseMetadataFrom(lines, metadata) ==
  IF lines = <<>> THEN metadata
  ELSE LET line == Strip(Head(lines))
           colon == IndexFrom(line, ":", 1)
           key == StrLower(Strip(SubSeq(line, 1, colon - 1)))
           value == Strip(SubSeq(line, colon + 1, Len(line)))
       IN IF line = <<>> \/ line[1] = "#" \/ colon = 0
          THEN ParseMetadataFrom(Tail(lines), metadata)
          ELSE ParseMetadataFrom(
                 Tail(lines),
                 (key :> (IF key = KEY_TAGS THEN ParseTagList(value) ELSE value)) @@ metadata)

_parse_metadata(lines) == ParseMetadataFrom(lines, EmptyDict)

\* the loop of _split_front_matter over lines[1:]
RECURSIVE SplitLoop(_, _, _, _)
SplitLoop(lines, inside_meta, meta_lines, body_lines) ==
  IF lines = <<>> THEN [meta_lines |-> meta_lines, body_lines |-> body_lines]
  ELSE IF inside_meta /\ Strip(Head(lines)) = DELIM
       THEN SplitLoop(Tail(lines), FALSE, meta_lines, body_lines)
  ELSE IF inside_meta
       THEN SplitLoop(Tail(lines), TRUE, Append(meta_lines, Head(lines)), body_lines)
  ELSE SplitLoop(Tail(lines), FALSE, meta_lines, Append(body_lines, Head(lines)))

\* str.lstrip("\n")
LStripNewlines(s) ==
  LET keep == {k \in 1..Len(s) : s[k] # "\n"}
  IN IF keep = {} THEN <<>> ELSE SubSeq(s, Min(keep), Len(s))

\* the body keeps its leading newlines
_split_front_matter_keep_newlines(text) ==
  LET lines == SplitLines(text)
  IN IF lines = <<>> \/ Strip(lines[1]) # DELIM
     THEN [metadata |-> EmptyDict, body |-> text]
     ELSE LET r == SplitLoop(Tail(lines), TRUE, <<>>, <<>>)
          IN [metadata |-> _parse_metadata(r.meta_lines),
              body |-> Join(<<"\n">>, r.body_lines)]

_split_front_matter(text) ==
  LET lines == SplitLines(text)
  IN IF lines = <<>> \/ Strip(lines[1]) # DELIM
     THEN [metadata |-> EmptyDict, body |-> text]
     ELSE LET r == SplitLoop(Tail(lines), TRUE, <<>>, <<>>)
          IN [metadata |-> _parse_metadata(r.meta_lines),
              body |-> LStripNewlines(Join(<<"\n">>, r.body_lines))]

\* str.lstrip("# ")
LStripHashSpace(s) ==
  LET keep == {k \in 1..Len(s) : s[k] \notin {"#", " "}}
  IN IF keep = {} THEN <<>> ELSE SubSeq(s, Min(keep), Len(s))

NoHeading == [found |-> FALSE, text |-> <<>>]

RECURSIVE ExtractHeadingFrom(_)
ExtractHeadingFrom(lines) ==
  IF lines = <<>> THEN NoHeading
  ELSE LET stripped == Strip(Head(lines))
       IN IF stripped # <<>> /\ stripped[1] = "#"
          THEN [found |-> TRUE, text |-> LStripHashSpace(stripped)]
          ELSE ExtractHeadingFrom(Tail(lines))

_extract_heading(body) == ExtractHeadingFrom(SplitLines(body))

(***************************************************************************)
(* _create_excerpt                                                         *)
(***************************************************************************)
DEFAULT_MAX_LENGTH == 160

FENCE == <<BACKTICK, BACKTICK, BACKTICK>>

\* the first index >= i at which p occurs in s, or 0
FindFrom(s, p, i) ==
  LET found == {k \in i..(Len(s) - Len(p) + 1) : SubSeq(s, k, k + Len(p) - 1) = p}
  IN IF found = {} THEN 0 ELSE Min(found)

\* re.sub(r"```.*?```", "", text, flags=re.DOTALL)
RECURSIVE RemoveCode(_)
RemoveCode(text) ==
  LET open == FindFrom(text, FENCE, 1)
      close == IF open = 0 THEN 0 ELSE FindFrom(text, FENCE, open + 3)
  IN IF close = 0 THEN text
     ELSE SubSeq(text, 1, open - 1) \o RemoveCode(SubSeq(text, close + 3, Len(text)))

\* the end j of the lazy group of r"\[(.*?)\]\([^)]*\)" opened at i, or 0:
\* the least j >= i with "](" at j+1, no newline in i+1..j and a ")" after
LinkLabelEnd(text, i) ==
  LET ends == {j \in i..(Len(text) - 2) :
                 /\ text[j + 1] = "]"
                 /\ text[j + 2] = "("
                 /\ IndexFrom(text, ")", j + 3) # 0
                 /\ \A m \in (i + 1)..j : text[m] # "\n"}
  IN IF ends = {} THEN 0 ELSE Min(ends)

\* re.sub(r"\[(.*?)\]\([^)]*\)", r"\1", text)
RECURSIVE ReplaceLinks(_)
ReplaceLinks(text) ==
  LET i == IndexFrom(text, "[", 1)
      j == IF i = 0 THEN 0 ELSE LinkLabelEnd(text, i)
      k == IndexFrom(text, ")", j + 3)
  IN IF i = 0 THEN text
     ELSE IF j = 0 THEN SubSeq(text, 1, i) \o ReplaceLinks(SubSeq(text, i + 1, Len(text)))
     ELSE SubSeq(text, 1, i - 1) \o SubSeq(text, i + 1, j)
          \o ReplaceLinks(SubSeq(text, k + 1, Len(text)))

IsMarkup(c) == c \in {"#", "*", ">", BACKTICK, "_", "~"}

NotMarkup(c) == ~IsMarkup(c)

\* re.sub(r"[#*>`_~]", "", text)
RemoveMarkup(text) == SelectSeq(text, NotMarkup)

\* " ".join(text.split())
Collapse(text) == Join(<<" ">>, SplitWhitespace(text))

\* s[:n], also for negative n
SliceTo(s, n) ==
  LET end == IF n >= 0 THEN n ELSE Len(s) + n
  IN SubSeq(s, 1, IF end > Len(s) THEN Len(s) ELSE IF end < 0 THEN 0 ELSE end)

Collapsed(text) == Collapse(RemoveMarkup(ReplaceLinks(RemoveCode(text))))

\* collapsed[:max_length] instead of collapsed[:max_length - 1]
TruncateOffByOne(collapsed, max_length) ==
  RStrip(SliceTo(collapsed, max_length)) \o <<ELLIPSIS>>

Truncate(collapsed, max_length) == RStrip(SliceTo(collapsed, max_length - 1)) \o <<ELLIPSIS>>

_create_excerpt(text, max_length) ==
  LET collapsed == Collapsed(text)
  IN IF Len(collapsed) <= max_length THEN collapsed ELSE Truncate(collapsed, max_length)

(***************************************************************************)
(* list.sort / sorted: a stable sort.  Less(x, y) is the strict order of   *)
(* the keys; an element goes after the elements with a smaller key and     *)
(* after the earlier elements with an equal key.                           *)
(***************************************************************************)
StableSort(seq, Less(_, _)) ==
  LET n == Len(seq)
      rank(i) == 1 + Cardinality({j \in 1..n : \/ Less(seq[j], seq[i])
                                               \/ (~Less(seq[i], seq[j]) /\ j < i)})
  IN [r \in 1..n |-> seq[CHOOSE i \in 1..n : rank(i) = r]]

\* the orders in which a set can be iterated: a set of str is iterated in
\* hash order, which changes from run to run, and rglob yields the files in
\* the order of the file system
IterationOrders(S) ==
  {order \in [1..Cardinality(S) -> S] :
     \A i, j \in 1..Cardinality(S) : order[i] = order[j] => i = j}

(***************************************************************************)
(* _extract_outgoing_slugs                                                 *)
(***************************************************************************)
HTML == <<".", "h", "t", "m", "l">>
SCHEME_SEP == <<":", "/", "/">>
MAILTO == <<"m", "a", "i", "l", "t", "o", ":">>

\* group 1 of every match of LINK_PATTERN r"\[[^\]]+\]\(([^)]+)\)", in order
RECURSIVE LinkTargets(_)
LinkTargets(body) ==
  LET i == IndexFrom(body, "[", 1)
      j == IF i = 0 THEN 0 ELSE IndexFrom(body, "]", i + 1)
      k == IF j = 0 THEN 0 ELSE IndexFrom(body, ")", j + 2)
      matched == /\ j > i + 1
                 /\ j + 1 <= Len(body)
                 /\ body[j + 1] = "("
                 /\ k > j + 2
  IN IF i = 0 THEN <<>>
     ELSE IF matched
          THEN <<SubSeq(body, j + 2, k - 1)>> \o LinkTargets(SubSeq(body, k + 1, Len(body)))
     ELSE LinkTargets(SubSeq(body, i + 1, Len(body)))

Skipped == [kind |-> "skip", slug |-> <<>>]
Raised == [kind |-> "error", slug |-> <<>>]

\* the target resolved against the root instead of the note's directory
TargetSlugFromRoot(target, current_dir, root) ==
  LET cleaned == Head(Split(target, "#"))
      candidate == PathOf(cleaned)
      suffixed == IF Suffix(candidate.parts) = <<>>
                  THEN WithSuffix(candidate.parts, MD)
                  ELSE candidate.parts
      resolved == Resolve(IF candidate.abs THEN suffixed ELSE root \o suffixed)
  IN IF \/ target = <<>>
        \/ target[1] = "#"
        \/ Contains(target, SCHEME_SEP)
        \/ StartsWith(target, MAILTO)
        \/ cleaned = <<>>
     THEN Skipped
     ELSE IF candidate.parts = <<>> THEN Raised
     ELSE IF Suffix(candidate.parts) \notin {<<>>, MD} THEN Skipped
     ELSE IF ~IsRelativeTo(resolved, root) THEN Skipped
     ELSE [kind |-> "slug",
           slug |-> AsPosix(WithSuffix(RelativeTo(resolved, root), <<>>))]

\* one iteration of the loop of _extract_outgoing_slugs: the slug a target
\* adds, or that it is skipped, or that with_suffix raises ValueError
TargetSlug(target, current_dir, root) ==
  LET cleaned == Head(Split(target, "#"))
      candidate == PathOf(cleaned)
      suffixed == IF Suffix(candidate.parts) = <<>>
                  THEN WithSuffix(candidate.parts, MD)
                  ELSE candidate.parts
      resolved == Resolve(IF candidate.abs THEN suffixed ELSE current_dir \o suffixed)
  IN IF \/ target = <<>>
        \/ target[1] = "#"
        \/ Contains(target, SCHEME_SEP)
        \/ StartsWith(target, MAILTO)
        \/ cleaned = <<>>
     THEN Skipped
     ELSE IF candidate.parts = <<>> THEN Raised
     ELSE IF Suffix(candidate.parts) \notin {<<>>, MD} THEN Skipped
     ELSE IF ~IsRelativeTo(resolved, root) THEN Skipped
     ELSE [kind |-> "slug",
           slug |-> AsPosix(WithSuffix(RelativeTo(resolved, root), <<>>))]

RECURSIVE ExtractSlugsFrom(_, _, _, _)
ExtractSlugsFrom(targets, current_dir, root, slugs) ==
  IF targets = <<>> THEN [error |-> FALSE, slugs |-> slugs]
  ELSE LET r == TargetSlug(Head(targets), current_dir, root)
       IN IF r.kind = "error" THEN [error |-> TRUE, slugs |-> {}]
          ELSE ExtractSlugsFrom(Tail(targets), current_dir, root,
                                IF r.kind = "slug" THEN slugs \cup {r.slug} ELSE slugs)

_extract_outgoing_slugs(body, current_dir, root) ==
  ExtractSlugsFrom(LinkTargets(body), current_dir, root, {})

(***************************************************************************)
(* Note, NoteRef, _parse_note, _load_notes.  The dict of notes is the      *)
(* sequence of its values in insertion order; the key of a note is its     *)
(* slug.  html_content and updated_at are not modelled.                    *)
(***************************************************************************)
\* the resolved source directory
ROOT == <<<<"n", "o", "t", "e", "s">>>>

Parent(parts) == SubSeq(parts, 1, Len(parts) - 1)

html_path(note) == WithSuffix(note.rel_path, HTML)

SlugOf(rel_path) == AsPosix(WithSuffix(rel_path, <<>>))

\* the heading is tried before the front-matter title
TitleOfHeadingFirst(metadata, heading, stem) ==
  IF heading.found /\ heading.text # <<>> THEN heading.text
  ELSE IF KEY_TITLE \in DOMAIN metadata /\ metadata[KEY_TITLE] # <<>> THEN metadata[KEY_TITLE]
  ELSE stem

\* x or y or z on str values, None being a heading that was not found
TitleOf(metadata, heading, stem) ==
  IF KEY_TITLE \in DOMAIN metadata /\ metadata[KEY_TITLE] # <<>> THEN metadata[KEY_TITLE]
  ELSE IF heading.found /\ heading.text # <<>> THEN heading.text
  ELSE stem

_parse_note(rel_path, slug, root, text) ==
  LET fm == _split_front_matter(text)
      outgoing == _extract_outgoing_slugs(fm.body, root \o Parent(rel_path), root)
  IN [error |-> outgoing.error,
      note |-> [rel_path |-> rel_path,
                slug |-> slug,
                title |-> TitleOf(fm.metadata, _extract_heading(fm.body), Stem(rel_path)),
                tags |-> IF KEY_TAGS \in DOMAIN fm.metadata THEN fm.metadata[KEY_TAGS] ELSE <<>>,
                content |-> fm.body,
                excerpt |-> _create_excerpt(fm.body, DEFAULT_MAX_LENGTH),
                outgoing_slugs |-> outgoing.slugs,
                backlinks |-> <<>>]]

Slugs(notes) == {notes[i].slug : i \in 1..Len(notes)}

\* notes[slug] = note: a new key is appended, an old key keeps its place
DictSet(notes, slug, note) ==
  IF slug \in Slugs(notes)
  THEN [i \in 1..Len(notes) |-> IF notes[i].slug = slug THEN note ELSE notes[i]]
  ELSE Append(notes, note)

\* notes.get(slug): the position of the note, 0 for None
DictGet(notes, slug) ==
  IF slug \in Slugs(notes) THEN CHOOSE i \in 1..Len(notes) : notes[i].slug = slug ELSE 0

\* sorted(source_dir.rglob("*.md")), as paths relative to source_dir, for
\* the order in which rglob found them
SortedPaths(found) == StableSort(found, PathLess)

(***************************************************************************)
(* _attach_backlinks                                                       *)
(***************************************************************************)
NoteRef(note) == [slug |-> note.slug, title |-> note.title, html_path |-> html_path(note)]

ClearBacklinks(notes) == [i \in 1..Len(notes) |-> [notes[i] EXCEPT !.backlinks = <<>>]]

\* a lookup that leaves out a note's links to itself
BacklinkTargetSkipSelf(notes, note, slug) ==
  IF slug = note.slug THEN 0 ELSE DictGet(notes, slug)

\* notes.get(slug, note): a dangling slug falls back to the linking note
BacklinkTargetDefaultSelf(notes, note, slug) ==
  IF slug \in Slugs(notes) THEN DictGet(notes, slug) ELSE DictGet(notes, note.slug)

\* target = notes.get(slug): the position of the target, 0 to continue
BacklinkTarget(notes, note, slug) == DictGet(notes, slug)

\* the inner loop, for the note at position i, over its outgoing slugs in
\* the order in which the set is iterated
RECURSIVE AppendRefs(_, _, _)
AppendRefs(notes, i, slugs) ==
  IF slugs = <<>> THEN notes
  ELSE LET target == BacklinkTarget(notes, notes[i], Head(slugs))
       IN AppendRefs(IF target = 0 THEN notes
                     ELSE [notes EXCEPT ![target].backlinks = Append(@, NoteRef(notes[i]))],
                     i, Tail(slugs))

\* the outer loop; orders[i] is the order in which outgoing_slugs of the
\* note at position i is iterated
RECURSIVE AttachFrom(_, _, _)
AttachFrom(notes, i, orders) ==
  IF i > Len(notes) THEN notes
  ELSE AttachFrom(AppendRefs(notes, i, orders[i]), i + 1, orders)

\* the iteration orders of the outgoing_slugs of the notes from position i
RECURSIVE SlugOrdersFrom(_, _)
SlugOrdersFrom(notes, i) ==
  IF i > Len(notes) THEN {<<>>}
  ELSE {<<order>> \o rest : order \in IterationOrders(notes[i].outgoing_slugs),
                            rest \in SlugOrdersFrom(notes, i + 1)}

SlugOrders(notes) == SlugOrdersFrom(notes, 1)

\* key=lambda ref: ref.title.lower()
RefLess(r1, r2) == StrLess(StrLower(r1.title), StrLower(r2.title))

SortBacklinks(notes) ==
  [i \in 1..Len(notes) |-> [notes[i] EXCEPT !.backlinks = StableSort(@, RefLess)]]

_attach_backlinks(notes, orders) ==
  SortBacklinks(AttachFrom(ClearBacklinks(notes), 1, orders))

(***************************************************************************)
(* _collect_tags.  tag_map is the sequence of its items in dict order; a   *)
(* group lists its notes by slug.                                          *)
(***************************************************************************)
TagsOf(tag_map) == [i \in 1..Len(tag_map) |-> tag_map[i].tag]

\* tag_map.setdefault(tag, []).append(note)
SetDefaultAppend(tag_map, tag, slug) ==
  IF tag \in SeqToSet(TagsOf(tag_map))
  THEN [i \in 1..Len(tag_map) |->
          IF tag_map[i].tag = tag
          THEN [tag_map[i] EXCEPT !.notes = Append(@, slug)]
          ELSE tag_map[i]]
  ELSE Append(tag_map, [tag |-> tag, notes |-> <<slug>>])

RECURSIVE AddNoteTags(_, _, _)
AddNoteTags(tag_map, slug, tags) ==
  IF tags = <<>> THEN tag_map
  ELSE AddNoteTags(SetDefaultAppend(tag_map, Head(tags), slug), slug, Tail(tags))

RECURSIVE GroupFrom(_, _, _)
GroupFrom(notes, i, tag_map) ==
  IF i > Len(notes) THEN tag_map
  ELSE GroupFrom(notes, i + 1, AddNoteTags(tag_map, notes[i].slug, notes[i].tags))

\* key=lambda n: (n.title, n.slug): the title not lower-cased
NoteLessRawTitle(n1, n2) ==
  \/ StrLess(n1.title, n2.title)
  \/ n1.title = n2.title /\ StrLess(n1.slug, n2.slug)

\* key=lambda n: (n.title.lower(), n.slug)
NoteLess(n1, n2) ==
  \/ StrLess(StrLower(n1.title), StrLower(n2.title))
  \/ StrLower(n1.title) = StrLower(n2.title) /\ StrLess(n1.slug, n2.slug)

\* key=lambda item: item[0].lower()
ItemLess(e1, e2) == StrLess(StrLower(e1.tag), StrLower(e2.tag))

_collect_tags(notes) ==
  LET grouped == GroupFrom(notes, 1, <<>>)
      Less(s1, s2) == NoteLess(notes[DictGet(notes, s1)], notes[DictGet(notes, s2)])
      sorted == [i \in 1..Len(grouped) |->
                   [grouped[i] EXCEPT !.notes = StableSort(@, Less)]]
  IN StableSort(sorted, ItemLess)

(***************************************************************************)
(* _slugify_tag, _build_tag_paths                                          *)
(***************************************************************************)
TAGS_DIR == <<"t", "a", "g", "s">>

IsAlnum(c) ==
  /\ c \in DOMAIN CodePoint
  /\ \/ CodePoint[c] \in 48..57
     \/ CodePoint[c] \in 65..90
     \/ CodePoint[c] \in 97..122

\* the characters r"[^0-9A-Za-z\-_.ぁ-んァ-ヴー一-龯ー]+" leaves
IsTagChar(c) ==
  \/ IsAlnum(c)
  \/ c \in {"-", "_", "."}
  \/ /\ c \in DOMAIN CodePoint
     /\ \/ CodePoint[c] \in 12353..12435
        \/ CodePoint[c] \in 12449..12532
        \/ CodePoint[c] = 12540
        \/ CodePoint[c] \in 19968..40879

\* urllib.parse.quote(c, safe="") of one character
QuoteChar(c) ==
  CASE IsAlnum(c) \/ c \in {"_", ".", "-", "~"} -> <<c>>
    [] c = "\n" -> <<"%", "0", "A">>
    [] c = " " -> <<"%", "2", "0">>
    [] c = "!" -> <<"%", "2", "1">>
    [] c = "#" -> <<"%", "2", "3">>
    [] c = "%" -> <<"%", "2", "5">>
    [] c = "(" -> <<"%", "2", "8">>
    [] c = ")" -> <<"%", "2", "9">>
    [] c = "," -> <<"%", "2", "C">>
    [] c = "/" -> <<"%", "2", "F">>
    [] c = ":" -> <<"%", "3", "A">>
    [] c = "[" -> <<"%", "5", "B">>
    [] c = "]" -> <<"%", "5", "D">>
    [] c = BACKTICK -> <<"%", "6", "0">>
    [] c = ELLIPSIS -> <<"%", "E", "2", "%", "8", "0", "%", "A", "6">>

RECURSIVE Quote(_)
Quote(s) == IF s = <<>> THEN <<>> ELSE QuoteChar(Head(s)) \o Quote(Tail(s))

\* re.sub(r"\s+", "-", s) of a stripped s: its whitespace runs are interior
DashWhitespace(s) == Join(<<"-">>, SplitWhitespace(s))

_slugify_tag(tag) ==
  LET safe == SelectSeq(DashWhitespace(Strip(tag)), IsTagChar)
  IN StrLower(IF safe = <<>> THEN Quote(tag) ELSE safe)

Digits == <<"0", "1", "2", "3", "4", "5", "6", "7", "8", "9">>

\* str(n) for n >= 0
RECURSIVE IntToStr(_)
IntToStr(n) == IF n < 10 THEN <<Digits[n + 1]>> ELSE IntToStr(n \div 10) \o <<Digits[(n % 10) + 1]>>

\* no while loop: the base identifier is taken as it is
FreeCandidateNoLoop(base, candidate, counter, used) == candidate

\* the while loop of _build_tag_paths: the first free candidate
RECURSIVE FreeCandidate(_, _, _, _)
FreeCandidate(base, candidate, counter, used) ==
  IF candidate \in used
  THEN FreeCandidate(base, base \o <<"-">> \o IntToStr(counter + 1), counter + 1, used)
  ELSE candidate

\* key=lambda t: t.lower()
TagLess(t1, t2) == StrLess(StrLower(t1), StrLower(t2))

RECURSIVE AssignPaths(_, _, _)
AssignPaths(tags, used, tag_paths) ==
  IF tags = <<>> THEN tag_paths
  ELSE LET base == _slugify_tag(Head(tags))
           candidate == FreeCandidate(base, base, 1, used)
       IN AssignPaths(Tail(tags), used \cup {candidate},
                      (Head(tags) :> (<<TAGS_DIR>> \o PathOf(candidate \o HTML).parts))
                        @@ tag_paths)

\* tags: the iterable as a sequence; the result maps each tag to its path
_build_tag_paths(tags) == AssignPaths(StableSort(tags, TagLess), {}, EmptyDict)

(***************************************************************************)
(* The corpora of the model: at most MaxFiles files, at paths of           *)
(* CorpusPaths, each with a text of Texts.                                 *)
(***************************************************************************)
CorpusPaths ==
  { <<<<".", "m", "d">>>>,
    <<<<".", "m", "d", "-", "x", ".", "m", "d">>>>,
    <<<<".", "m", "d", ".", "m", "d">>>>,
    <<<<"a", ".", "m", "d">>>>,
    <<<<"s", "u", "b">>, <<"p", "a", "g", "e", ".", "m", "d">>>> }

\* '---\ntitle: x\ntags: x, x\n---\n[p](sub/page.md) [m](missing.md) [s](.md-x)'
TEXT_x ==
  <<"-", "-", "-", "\n", "t", "i", "t", "l", "e", ":", " ", "x", "\n", "t",
    "a", "g", "s", ":", " ", "x", ",", " ", "x", "\n", "-", "-", "-", "\n",
    "[", "p", "]", "(", "s", "u", "b", "/", "p", "a", "g", "e", ".", "m",
    "d", ")", " ", "[", "m", "]", "(", "m", "i", "s", "s", "i", "n", "g",
    ".", "m", "d", ")", " ", "[", "s", "]", "(", ".", "m", "d", "-", "x",
    ")">>

\* '---\ntitle: X\ntags: P, p\n---\n[s](.md-x) [u](../a.md) [a](a.md#t)'
TEXT_X ==
  <<"-", "-", "-", "\n", "t", "i", "t", "l", "e", ":", " ", "X", "\n", "t",
    "a", "g", "s", ":", " ", "P", ",", " ", "p", "\n", "-", "-", "-", "\n",
    "[", "s", "]", "(", ".", "m", "d", "-", "x", ")", " ", "[", "u", "]",
    "(", ".", ".", "/", "a", ".", "m", "d", ")", " ", "[", "a", "]", "(",
    "a", ".", "m", "d", "#", "t", ")">>

\* '---\ntitle: b\ntags: p, P, x\n---\n[r](/a.md) [a](a.md)'
TEXT_b ==
  <<"-", "-", "-", "\n", "t", "i", "t", "l", "e", ":", " ", "b", "\n", "t",
    "a", "g", "s", ":", " ", "p", ",", " ", "P", ",", " ", "x", "\n", "-",
    "-", "-", "\n", "[", "r", "]", "(", "/", "a", ".", "m", "d", ")", " ",
    "[", "a", "]", "(", "a", ".", "m", "d", ")">>

\* '# b\n[a](a) [e](http://e/a.md) [i](a.txt) [t](#t) [](a.md) [p](page.md)'
TEXT_heading ==
  <<"#", " ", "b", "\n", "[", "a", "]", "(", "a", ")", " ", "[", "e", "]",
    "(", "h", "t", "t", "p", ":", "/", "/", "e", "/", "a", ".", "m", "d",
    ")", " ", "[", "i", "]", "(", "a", ".", "t", "x", "t", ")", " ", "[",
    "t", "]", "(", "#", "t", ")", " ", "[", "]", "(", "a", ".", "m", "d",
    ")", " ", "[", "p", "]", "(", "p", "a", "g", "e", ".", "m", "d", ")">>

\* 'a'
TEXT_plain ==
  <<"a">>

\* '[d](./)'
TEXT_dot ==
  <<"[", "d", "]", "(", ".", "/", ")">>

Texts == {TEXT_x, TEXT_X, TEXT_b, TEXT_heading, TEXT_plain, TEXT_dot}

(***************************************************************************)
(* generate_site as a state machine.                                       *)
(*   source_kind    what source_dir is: "missing", "file" or "dir"         *)
(*   corpus         the *.md files under source_dir: path |-> text         *)
(*   output         the output directory: whether it exists, its entries   *)
(*   output_before  the output directory when generate_site was called     *)
(*   pc             the position in generate_site                          *)
(*   error          the exception generate_site raised, "" for none        *)
(*   queue          the paths _load_notes has still to load                *)
(*   notes, tag_map, tag_paths   the locals of generate_site               *)
(*   text, max_length, excerpt   a call of _create_excerpt                 *)
(*   tags           the argument of a call of _build_tag_paths             *)
(*   note_path, metadata, body, title   a call of _parse_note on text      *)
(***************************************************************************)
VARIABLES source_kind, corpus, output, output_before, pc, error, queue,
          notes, tag_map, tag_paths, text, max_length, excerpt, tags,
          note_path, metadata, body, title

vars == <<source_kind, corpus, output, output_before, pc, error, queue,
          notes, tag_map, tag_paths, text, max_length, excerpt, tags,
          note_path, metadata, body, title>>

parseVars == <<note_path, metadata, body, title>>

\* no call of _parse_note on its own
NoParse == note_path = <<>> /\ metadata = EmptyDict /\ body = <<>> /\ title = <<>>

siteVars == <<source_kind, corpus, output, output_before, error, queue,
              notes, tag_map>>

Absent == [exists |-> FALSE, entries |-> {}]

OldEntry == [kind |-> "old", file |-> "old.html", path |-> <<>>]

Existing == [exists |-> TRUE, entries |-> {OldEntry}]

Fixed(file) == [kind |-> "fixed", file |-> file, path |-> <<>>]

Page(kind, path) == [kind |-> kind, file |-> "", path |-> path]

\* the output directory is cleared before the notes are loaded
NextStepOutputFirst(step) ==
  CASE step = "check" -> "output"
    [] step = "output" -> "load"
    [] step = "load" -> "backlinks"
    [] step = "backlinks" -> "tags"
    [] step = "tags" -> "paths"
    [] step = "paths" -> "write"
    [] step = "write" -> "done"

\* tag grouping and tag-path assignment run before the backlink pass
NextStepTagsFirst(step) ==
  CASE step = "check" -> "load"
    [] step = "load" -> "tags"
    [] step = "tags" -> "paths"
    [] step = "paths" -> "backlinks"
    [] step = "backlinks" -> "output"
    [] step = "output" -> "write"
    [] step = "write" -> "done"

\* the order of the passes of generate_site
NextStep(step) ==
  CASE step = "check" -> "load"
    [] step = "load" -> "backlinks"
    [] step = "backlinks" -> "output"
    [] step = "output" -> "tags"
    [] step = "tags" -> "paths"
    [] step = "paths" -> "write"
    [] step = "write" -> "done"

Corpora ==
  UNION {[P -> Texts] : P \in {Q \in SUBSET CorpusPaths : Cardinality(Q) <= MaxFiles}}

Init ==
  /\ source_kind \in {"missing", "file", "dir"}
  /\ corpus \in IF source_kind = "dir" THEN Corpora ELSE {EmptyDict}
  /\ output \in {Absent, Existing}
  /\ output_before = output
  /\ pc = "check"
  /\ error = ""
  /\ queue = <<>>
  /\ notes = <<>>
  /\ tag_map = <<>>
  /\ tag_paths = EmptyDict
  /\ text = <<>>
  /\ max_length = 0
  /\ excerpt = <<>>
  /\ tags = <<>>
  /\ NoParse

Fail(exception) ==
  /\ pc' = "failed"
  /\ error' = exception

\* lines 68-74
CheckSource ==
  /\ pc = "check"
  /\ \/ source_kind = "missing" /\ Fail("FileNotFoundError")
     \/ source_kind = "file" /\ Fail("NotADirectoryError")
     \/ source_kind = "dir" /\ pc' = NextStep("check") /\ error' = error
  /\ UNCHANGED <<source_kind, corpus, output, output_before, queue, notes,
                 tag_map, tag_paths, text, max_length, excerpt, tags, parseVars>>

\* _load_notes: notes = {} and the sorted paths
BeginLoad ==
  /\ pc = "load"
  /\ pc' = "loading"
  /\ notes' = <<>>
  /\ \E found \in IterationOrders(DOMAIN corpus) : queue' = SortedPaths(found)
  /\ UNCHANGED <<source_kind, corpus, output, output_before, error, tag_map,
                 tag_paths, text, max_length, excerpt, tags, parseVars>>

\* one iteration of the loop of _load_notes
LoadNote ==
  /\ pc = "loading"
  /\ queue # <<>>
  /\ LET rel_path == Head(queue)
         slug == SlugOf(rel_path)
         parsed == _parse_note(rel_path, slug, ROOT, corpus[rel_path])
     IN IF parsed.error
        THEN Fail("ValueError") /\ UNCHANGED <<notes, queue>>
        ELSE /\ notes' = DictSet(notes, slug, parsed.note)
             /\ queue' = Tail(queue)
             /\ UNCHANGED <<pc, error>>
  /\ UNCHANGED <<source_kind, corpus, output, output_before, tag_map,
                 tag_paths, text, max_length, excerpt, tags, parseVars>>

\* path.read_text or path.stat raises (an unreadable file, a directory
\* named *.md)
LoadFails ==
  /\ pc = "loading"
  /\ queue # <<>>
  /\ Fail("OSError")
  /\ UNCHANGED <<source_kind, corpus, output, output_before, queue, notes,
                 tag_map, tag_paths, text, max_length, excerpt, tags, parseVars>>

\* _load_notes returns
EndLoad ==
  /\ pc = "loading"
  /\ queue = <<>>
  /\ pc' = NextStep("load")
  /\ UNCHANGED <<siteVars, tag_paths, text, max_length, excerpt, tags, parseVars>>

\* line 77
AttachBacklinks ==
  /\ pc = "backlinks"
  /\ \E orders \in SlugOrders(notes) : notes' = _attach_backlinks(notes, orders)
  /\ pc' = NextStep("backlinks")
  /\ UNCHANGED <<source_kind, corpus, output, output_before, error, queue,
                 tag_map, tag_paths, text, max_length, excerpt, tags, parseVars>>

\* lines 79-81: rmtree, mkdir
PrepareOutput ==
  /\ pc = "output"
  /\ output' = [exists |-> TRUE, entries |-> {}]
  /\ pc' = NextStep("output")
  /\ UNCHANGED <<source_kind, corpus, output_before, error, queue, notes,
                 tag_map, tag_paths, text, max_length, excerpt, tags, parseVars>>

\* line 83
CollectTags ==
  /\ pc = "tags"
  /\ tag_map' = _collect_tags(notes)
  /\ pc' = NextStep("tags")
  /\ UNCHANGED <<source_kind, corpus, output, output_before, error, queue,
                 notes, tag_paths, text, max_length, excerpt, tags, parseVars>>

\* line 84
BuildTagPaths ==
  /\ pc = "paths"
  /\ tag_paths' = _build_tag_paths(TagsOf(tag_map))
  /\ pc' = NextStep("paths")
  /\ UNCHANGED <<siteVars, text, max_length, excerpt, tags, parseVars>>

\* lines 86-92: the files the writers leave in the output directory
Written ==
  {Fixed("assets/style.css"), Fixed("assets/search.js"), Fixed("search-index.json"),
   Fixed("index.html"), Fixed("search.html"), Fixed("tags/index.html")}
  \cup {Page("tag", tag_paths[tag_map[i].tag]) : i \in 1..Len(tag_map)}
  \cup {Page("note", html_path(notes[i])) : i \in 1..Len(notes)}

WriteSite ==
  /\ pc = "write"
  /\ output' = [output EXCEPT !.entries = @ \cup Written]
  /\ pc' = NextStep("write")
  /\ UNCHANGED <<source_kind, corpus, output_before, error, queue, notes,
                 tag_map, tag_paths, text, max_length, excerpt, tags, parseVars>>

Next ==
  \/ CheckSource
  \/ BeginLoad
  \/ LoadNote
  \/ LoadFails
  \/ EndLoad
  \/ AttachBacklinks
  \/ PrepareOutput
  \/ CollectTags
  \/ BuildTagPaths
  \/ WriteSite

Spec == Init /\ [][Next]_vars

(***************************************************************************)
(* A call of _create_excerpt on a text made of at most MaxTokens tokens    *)
(* with a maximum length up to MaxLength, or on a long text with the       *)
(* default maximum length.                                                 *)
(***************************************************************************)
ExcerptTokens ==
  {FENCE, <<"a">>, <<" ">>, <<ELLIPSIS>>, <<"[">>, <<"]", "(">>, <<")">>, <<"#">>}

RECURSIVE TextsOfTokens(_)
TextsOfTokens(n) ==
  IF n = 0 THEN {<<>>}
  ELSE {t \o k : t \in TextsOfTokens(n - 1), k \in ExcerptTokens}

ExcerptTexts == UNION {TextsOfTokens(n) : n \in 0..MaxTokens}

\* "a" * 158 + "…" + "bbb"
LongText ==
  [i \in 1..(DEFAULT_MAX_LENGTH + 2) |->
     IF i < DEFAULT_MAX_LENGTH - 1 THEN "a"
     ELSE IF i = DEFAULT_MAX_LENGTH - 1 THEN ELLIPSIS
     ELSE "b"]

ExcerptCalls ==
  (ExcerptTexts \X (0..MaxLength)) \cup {<<LongText, DEFAULT_MAX_LENGTH>>}

InitExcerpt ==
  /\ \E call \in ExcerptCalls : text = call[1] /\ max_length = call[2]
  /\ excerpt = <<>>
  /\ pc = "excerpt"
  /\ source_kind = "missing"
  /\ corpus = EmptyDict
  /\ output = Absent
  /\ output_before = Absent
  /\ error = ""
  /\ queue = <<>>
  /\ notes = <<>>
  /\ tag_map = <<>>
  /\ tag_paths = EmptyDict
  /\ tags = <<>>
  /\ NoParse

CreateExcerpt ==
  /\ pc = "excerpt"
  /\ excerpt' = _create_excerpt(text, max_length)
  /\ pc' = "excerpt_done"
  /\ UNCHANGED <<siteVars, tag_paths, text, max_length, tags, parseVars>>

SpecExcerpt == InitExcerpt /\ [][CreateExcerpt]_vars

(***************************************************************************)
(* A call of _build_tag_paths on at most MaxTags distinct tags of          *)
(* TagUniverse, in any order.                                              *)
(***************************************************************************)
TagUniverse ==
  { <<"a">>, <<"A">>, <<"a", "-", "2">>, <<"A", "-", "2">>, <<"a", " ", "2">>,
    <<"a", "-", "2", "-", "2">>, <<"!">>, <<"a", "!">>, <<" ">>, <<"%", "2", "1">> }

Injective(seq) == \A i, j \in 1..Len(seq) : seq[i] = seq[j] => i = j

\* the orderings of the subsets of S with n elements
Orderings(S, n) == {seq \in [1..n -> S] : Injective(seq)}

TagInputs == UNION {Orderings(TagUniverse, n) : n \in 0..MaxTags}

InitTagPaths ==
  /\ tags \in TagInputs
  /\ tag_paths = EmptyDict
  /\ pc = "tagpaths"
  /\ source_kind = "missing"
  /\ corpus = EmptyDict
  /\ output = Absent
  /\ output_before = Absent
  /\ error = ""
  /\ queue = <<>>
  /\ notes = <<>>
  /\ tag_map = <<>>
  /\ text = <<>>
  /\ max_length = 0
  /\ excerpt = <<>>
  /\ NoParse

CallBuildTagPaths ==
  /\ pc = "tagpaths"
  /\ tag_paths' = _build_tag_paths(tags)
  /\ pc' = "tagpaths_done"
  /\ UNCHANGED <<siteVars, text, max_length, excerpt, tags, parseVars>>

SpecTagPaths == InitTagPaths /\ [][CallBuildTagPaths]_vars

(***************************************************************************)
(* A call of _parse_note on a file of at most MaxLines lines of ParseLines *)
(* (front-matter delimiters with and without surrounding spaces, title     *)
(* entries, headings, empty and blank lines), named by a path of           *)
(* ParsePaths.                                                             *)
(***************************************************************************)
ParseLines ==
  { DELIM, <<" ">> \o DELIM, <<"t", "i", "t", "l", "e", ":", " ", "x">>,
    <<"t", "i", "t", "l", "e", ":">>, <<"#", " ", "h">>, <<" ", "#", " ", "#", "h">>,
    <<"#">>, <<"b">>, <<>>, <<" ">> }

ParseTexts ==
  {Join(<<"\n">>, lines) : lines \in UNION {[1..n -> ParseLines] : n \in 0..MaxLines}}

\* a.md and sub/.md
ParsePaths == {<<<<"a">> \o MD>>, <<<<"s", "u", "b">>, MD>>}

InitParseNote ==
  /\ text \in ParseTexts
  /\ note_path \in ParsePaths
  /\ metadata = EmptyDict
  /\ body = <<>>
  /\ title = <<>>
  /\ pc = "parse"
  /\ source_kind = "missing"
  /\ corpus = EmptyDict
  /\ output = Absent
  /\ output_before = Absent
  /\ error = ""
  /\ queue = <<>>
  /\ notes = <<>>
  /\ tag_map = <<>>
  /\ tag_paths = EmptyDict
  /\ max_length = 0
  /\ excerpt = <<>>
  /\ tags = <<>>

\* lines 111-114: the metadata, body and title of the note
ParseNote ==
  /\ pc = "parse"
  /\ LET fm == _split_front_matter(text)
         parsed == _parse_note(note_path, SlugOf(note_path), ROOT, text)
     IN /\ metadata' = fm.metadata
        /\ body' = fm.body
        /\ title' = parsed.note.title
        /\ pc' = IF parsed.error THEN "failed" ELSE "parsed"
  /\ UNCHANGED <<siteVars, tag_paths, text, max_length, excerpt, tags, note_path>>

SpecParseNote == InitParseNote /\ [][ParseNote]_vars

(***************************************************************************)
(* Properties of generate_site (checked under Spec).                       *)
(***************************************************************************)
Loaded == pc \in {"backlinks", "output", "tags", "paths", "write", "done"}

BacklinksAttached == pc \in {"output", "tags", "paths", "write", "done"}

RefSlugs(note) == {note.backlinks[k].slug : k \in 1..Len(note.backlinks)}

\* C1: after the backlink pass, for all loaded notes A and B (A = B
\* included), B.backlinks has a reference with slug A.slug if and only if
\* B.slug is in A.outgoing_slugs.
C1_BacklinksIffOutgoing ==
  BacklinksAttached =>
    \A a, b \in 1..Len(notes) :
      (notes[a].slug \in RefSlugs(notes[b])) <=> (notes[b].slug \in notes[a].outgoing_slugs)

\* a note links to itself and to another loaded note, and a third pair of
\* notes is not linked
C1_Witness ==
  /\ BacklinksAttached
  /\ \E a, b \in 1..Len(notes) :
       /\ a # b
       /\ notes[a].slug \in notes[a].outgoing_slugs
       /\ notes[a].slug \in RefSlugs(notes[a])
       /\ notes[b].slug \in notes[a].outgoing_slugs
       /\ notes[a].slug \notin notes[b].outgoing_slugs
       /\ notes[b].slug \notin RefSlugs(notes[a])

\* C3: the load fails when two source files normalize to the same slug and
\* never overwrites a note, so after a successful load the number of notes
\* in the mapping equals the number of source files enumerated.
C3_NoSilentOverwrite ==
  Loaded =>
    /\ \A p, q \in DOMAIN corpus : SlugOf(p) = SlugOf(q) => p = q
    /\ Len(notes) = Cardinality(DOMAIN corpus)

\* the markdown links of a body whose target, with any #fragment dropped,
\* is a path ending in .md that is not skipped as external and that lies
\* inside the root when resolved from the directory of the linking file
TargetPath(target, rel_path) ==
  LET candidate == PathOf(Head(Split(target, "#")))
  IN Resolve(IF candidate.abs THEN candidate.parts
             ELSE ROOT \o Parent(rel_path) \o candidate.parts)

EndsWith(s, p) == Len(s) >= Len(p) /\ SubSeq(s, Len(s) - Len(p) + 1, Len(s)) = p

IsInRootMdTarget(target, rel_path) ==
  /\ EndsWith(Head(Split(target, "#")), MD)
  /\ ~Contains(target, SCHEME_SEP)
  /\ ~StartsWith(target, MAILTO)
  /\ IsRelativeTo(TargetPath(target, rel_path), ROOT)

InRootMdTargets(content, rel_path) ==
  {t \in SeqToSet(LinkTargets(content)) : IsInRootMdTarget(t, rel_path)}

\* the document a target names, as a path of the corpus, and its slug
TargetDocument(target, rel_path) == RelativeTo(TargetPath(target, rel_path), ROOT)

TargetDocumentSlug(target, rel_path) == SlugOf(TargetDocument(target, rel_path))

\* C5 as stated: a link to an in-root .md target puts the target's slug in
\* the outgoing slugs when the target document exists in the corpus, and
\* the slug is excluded from the outgoing slugs when it does not exist.
C5_DanglingExcluded ==
  \A i \in 1..Len(notes) :
    \A t \in InRootMdTargets(notes[i].content, notes[i].rel_path) :
      LET slug == TargetDocumentSlug(t, notes[i].rel_path)
      IN IF TargetDocument(t, notes[i].rel_path) \in DOMAIN corpus
         THEN slug \in notes[i].outgoing_slugs
         ELSE slug \notin notes[i].outgoing_slugs

\* C5 amended: a link to an in-root .md target puts the target's slug in
\* the outgoing slugs whether or not the target document exists; resolving
\* it raises no error.
C5_ResolvesWhetherOrNotExists ==
  /\ \A i \in 1..Len(notes) :
       \A t \in InRootMdTargets(notes[i].content, notes[i].rel_path) :
         TargetDocumentSlug(t, notes[i].rel_path) \in notes[i].outgoing_slugs
  /\ \A p \in DOMAIN corpus :
       \A t \in InRootMdTargets(_split_front_matter(corpus[p]).body, p) :
         TargetSlug(t, ROOT \o Parent(p), ROOT).kind = "slug"

\* a build that finished with a note in a subdirectory whose links name an
\* existing document and a missing one
C5_Witness ==
  /\ pc = "done"
  /\ \E i \in 1..Len(notes) :
       /\ Len(notes[i].rel_path) > 1
       /\ \E t, u \in InRootMdTargets(notes[i].content, notes[i].rel_path) :
            /\ TargetDocument(t, notes[i].rel_path) \in DOMAIN corpus
            /\ TargetDocumentSlug(t, notes[i].rel_path) \in notes[i].outgoing_slugs
            /\ TargetDocument(u, notes[i].rel_path) \notin DOMAIN corpus
            /\ TargetDocumentSlug(u, notes[i].rel_path) \notin Slugs(notes)
            /\ TargetDocumentSlug(u, notes[i].rel_path) \in notes[i].outgoing_slugs

RECURSIVE TotalBacklinks(_)
TotalBacklinks(ns) ==
  IF ns = <<>> THEN 0 ELSE Len(Head(ns).backlinks) + TotalBacklinks(Tail(ns))

ResolvedLinks(ns) ==
  {<<i, slug>> \in (1..Len(ns)) \X Slugs(ns) : slug \in ns[i].outgoing_slugs}

Dangling(ns) == {i \in 1..Len(ns) : ~(ns[i].outgoing_slugs \subseteq Slugs(ns))}

\* C6: an outgoing slug that is no loaded note's slug fails no build and
\* contributes no backlink: after the backlink pass the number of backlink
\* entries over all notes is the number of (note, outgoing slug) pairs
\* whose slug is loaded, and a build of a directory fails only inside the
\* loop that loads the files.
C6_DanglingLinksAddNothing ==
  /\ BacklinksAttached => TotalBacklinks(notes) = Cardinality(ResolvedLinks(notes))
  /\ pc = "failed" /\ source_kind = "dir" => queue # <<>>

\* a finished build with a dangling link and with backlinks
C6_Witness ==
  /\ pc = "done"
  /\ Dangling(notes) # {}
  /\ TotalBacklinks(notes) > 0
  /\ \E i \in Dangling(notes) : notes[i].backlinks = <<>>

\* C7: when generate_site aborts with a fatal error (source root missing,
\* not a directory, a failure while loading), the output directory is as it
\* was before the call.
C7_AbortLeavesOutput ==
  pc = "failed" => output = output_before

\* a load that failed with an output directory in place
C7_Witness ==
  /\ pc = "failed"
  /\ error \in {"OSError", "ValueError"}
  /\ notes # <<>>
  /\ output = Existing

(***************************************************************************)
(* Properties of _build_tag_paths (checked under SpecTagPaths).            *)
(***************************************************************************)
\* C2: the paths _build_tag_paths assigns to two distinct tag strings of
\* its input are distinct strings.
C2_TagPathsInjective ==
  pc = "tagpaths_done" =>
    \A i, j \in 1..Len(tags) :
      tags[i] # tags[j] => AsPosix(tag_paths[tags[i]]) # AsPosix(tag_paths[tags[j]])

\* the tags "a", "A" and "a-2": two sanitize to the same identifier and the
\* third to the suffixed identifier of the second
C2_Witness ==
  /\ pc = "tagpaths_done"
  /\ {<<"a">>, <<"A">>, <<"a", "-", "2">>} \subseteq SeqToSet(tags)
  /\ _slugify_tag(<<"a">>) = _slugify_tag(<<"A">>)

(***************************************************************************)
(* Properties of _create_excerpt (checked under SpecExcerpt).              *)
(***************************************************************************)
WasTruncated == Len(Collapsed(text)) > max_length

\* C4 as stated: for every text and every maximum length the excerpt is no
\* longer than max_length, and a truncated excerpt ends with exactly one
\* ellipsis character.
C4_BoundedOneEllipsis ==
  pc = "excerpt_done" =>
    /\ Len(excerpt) <= max_length
    /\ WasTruncated =>
         /\ excerpt # <<>>
         /\ excerpt[Len(excerpt)] = ELLIPSIS
         /\ Len(excerpt) > 1 => excerpt[Len(excerpt) - 1] # ELLIPSIS

\* C4 amended: for every text and every maximum length of at least 1 the
\* excerpt is no longer than max_length, and a truncated excerpt is a
\* prefix of the collapsed text that does not end in whitespace, followed
\* by one ellipsis character.
C4_BoundedAppendedEllipsis ==
  pc = "excerpt_done" /\ max_length >= 1 =>
    /\ Len(excerpt) <= max_length
    /\ WasTruncated =>
         /\ excerpt # <<>>
         /\ excerpt[Len(excerpt)] = ELLIPSIS
         /\ StartsWith(Collapsed(text), SubSeq(excerpt, 1, Len(excerpt) - 1))
         /\ Len(excerpt) > 1 => ~IsSpace(excerpt[Len(excerpt) - 1])

\* a truncated excerpt of the full length, and one shortened by rstrip
C4_Witness ==
  /\ pc = "excerpt_done"
  /\ max_length >= 2
  /\ WasTruncated
  /\ Len(excerpt) = max_length
  /\ excerpt[Len(excerpt)] = ELLIPSIS

(***************************************************************************)
(* Properties of the tag pass of generate_site (checked under Spec).       *)
(***************************************************************************)
TagsCollected == pc \in {"paths", "write", "done"}

TagPathsBuilt == pc \in {"write", "done"}

\* the key order _collect_tags returns when the tags are first encountered
\* in the order enc
KeyOrder(enc) ==
  TagsOf(StableSort([i \in 1..Len(enc) |-> [tag |-> enc[i], notes |-> <<>>]], ItemLess))

\* C8: for a fixed set of tags, _build_tag_paths fed by _collect_tags
\* assigns the same path to every tag whatever order the tags are first
\* encountered in.
C8_PathsIndependentOfEncounterOrder ==
  TagPathsBuilt =>
    \A enc \in Orderings(SeqToSet(TagsOf(tag_map)), Len(tag_map)) :
      _build_tag_paths(KeyOrder(enc)) = tag_paths

NoteOf(slug) == notes[DictGet(notes, slug)]

\* C9: after the backlink pass every backlinks sequence is ordered by
\* lower-cased referring title, entries with equal lower-cased titles are
\* in the load order of the referring notes (the order of their paths), and
\* a referring note appears at most once.
C9_BacklinksOrdered ==
  BacklinksAttached =>
    \A i \in 1..Len(notes) :
      \A k, l \in 1..Len(notes[i].backlinks) :
        k < l =>
          LET r1 == notes[i].backlinks[k]
              r2 == notes[i].backlinks[l]
          IN /\ StrLeq(StrLower(r1.title), StrLower(r2.title))
             /\ r1.slug # r2.slug
             /\ StrLower(r1.title) = StrLower(r2.title) =>
                  PathLess(NoteOf(r1.slug).rel_path, NoteOf(r2.slug).rel_path)

Count(seq, x) == Cardinality({k \in 1..Len(seq) : seq[k] = x})

GroupsWith(slug) == {g \in 1..Len(tag_map) : slug \in SeqToSet(tag_map[g].notes)}

\* (title.lower(), slug) of n1 is at most that of n2
KeyLeq(n1, n2) ==
  \/ StrLess(StrLower(n1.title), StrLower(n2.title))
  \/ StrLower(n1.title) = StrLower(n2.title) /\ StrLeq(n1.slug, n2.slug)

GroupOrdered(group) ==
  \A k, l \in 1..Len(group) : k < l => KeyLeq(NoteOf(group[k]), NoteOf(group[l]))

\* C10 as stated: a note that declares N tags is in N groups, one per
\* declared tag, also when its tag sequence repeats a tag, and every group
\* is in ascending order of (lower-cased title, slug).
C10_OneGroupPerDeclaredTag ==
  TagsCollected =>
    /\ \A i \in 1..Len(notes) :
         Cardinality(GroupsWith(notes[i].slug)) = Len(notes[i].tags)
    /\ \A g \in 1..Len(tag_map) : GroupOrdered(tag_map[g].notes)

\* C10 amended: a note is in one group per distinct tag it declares, and in
\* the group of a tag once per occurrence of the tag in its tag sequence
\* (N entries in all for N declared tags); every group is in non-decreasing
\* order of (lower-cased title, slug).
C10_OneEntryPerDeclaredTag ==
  TagsCollected =>
    /\ \A i \in 1..Len(notes) :
         /\ {tag_map[g].tag : g \in GroupsWith(notes[i].slug)} = SeqToSet(notes[i].tags)
         /\ \A g \in 1..Len(tag_map) :
              Count(tag_map[g].notes, notes[i].slug) = Count(notes[i].tags, tag_map[g].tag)
    /\ Injective(TagsOf(tag_map))
    /\ \A g \in 1..Len(tag_map) : GroupOrdered(tag_map[g].notes)

\* a note that repeats a tag, in a group with another note that the sort
\* moved in front of it
C10_Witness ==
  /\ TagsCollected
  /\ \E i, j \in 1..Len(notes) :
       /\ i < j
       /\ ~Injective(notes[i].tags)
       /\ \E g \in 1..Len(tag_map) :
            /\ Count(tag_map[g].notes, notes[i].slug) = 2
            /\ tag_map[g].notes[1] = notes[j].slug

(***************************************************************************)
(* The passes of generate_site as barriers.                                *)
(***************************************************************************)
\* every document of the corpus has its note
AllLoaded == queue = <<>> /\ \A p \in DOMAIN corpus : SlugOf(p) \in Slugs(notes)

SomeBacklink(ns) == \E i \in 1..Len(ns) : ns[i].backlinks # <<>>

\* the backlinks of the notes are those of a completed backlink pass
BacklinkPassComplete ==
  \E orders \in SlugOrders(notes) : notes = _attach_backlinks(notes, orders)

TagPassStarted == tag_map # <<>> \/ tag_paths # EmptyDict

\* what the backlink pass leaves in the notes
LinksOf(ns) ==
  [i \in 1..Len(ns) |->
     [slug |-> ns[i].slug,
      outgoing_slugs |-> ns[i].outgoing_slugs,
      backlinks |-> ns[i].backlinks]]

\* C11: the passes of generate_site are strict barriers: a note has a
\* backlink only when every document has been loaded; tag grouping and
\* tag-path assignment start only after the backlink pass has completed;
\* and no step after the backlink pass changes the backlinks or the
\* outgoing slugs of a note.
C11_PassesAreBarriers ==
  /\ [](SomeBacklink(notes) => AllLoaded /\ BacklinksAttached)
  /\ [](TagPassStarted => BacklinksAttached /\ BacklinkPassComplete)
  /\ [][/\ ((tag_map' # tag_map \/ tag_paths' # tag_paths)
             => (BacklinksAttached /\ BacklinkPassComplete))
         /\ (BacklinksAttached => LinksOf(notes') = LinksOf(notes))]_vars

\* a finished build whose notes have backlinks, dangling links and tags
C11_Witness ==
  /\ pc = "done"
  /\ SomeBacklink(notes)
  /\ TagPassStarted
  /\ \E i \in 1..Len(notes) : notes[i].outgoing_slugs \ Slugs(notes) # {}

(***************************************************************************)
(* Properties of _parse_note (checked under SpecParseNote).                *)
(***************************************************************************)
Parsed == pc = "parsed"

\* s without its leading characters of chars
DropLeading(s, chars) ==
  LET keep == {k \in 1..Len(s) : s[k] \notin chars}
  IN IF keep = {} THEN <<>> ELSE SubSeq(s, Min(keep), Len(s))

\* ls without its leading lines that are empty or hold only whitespace
DropLeadingBlank(ls) ==
  LET keep == {k \in 1..Len(ls) : Strip(ls[k]) # <<>>}
  IN IF keep = {} THEN <<>> ELSE SubSeq(ls, Min(keep), Len(ls))

\* b is joined without its leading newline characters
NewlinesRemoved(joined, b) ==
  /\ b = <<>> \/ b[1] # "\n"
  /\ \E n \in 0..Len(joined) : joined = [k \in 1..n |-> "\n"] \o b

\* C12 as stated: a text whose first line is not exactly "---" has empty
\* metadata and is its own body; otherwise the metadata comes from the
\* lines before the next line equal to "---" and the body is the lines
\* after it without the leading blank lines.
C12_ExactDelimiter ==
  Parsed =>
    LET lines == SplitLines(text)
        closers == {k \in 2..Len(lines) : lines[k] = DELIM}
    IN IF lines = <<>> \/ lines[1] # DELIM
       THEN metadata = EmptyDict /\ body = text
       ELSE closers # {} =>
              /\ metadata = _parse_metadata(SubSeq(lines, 2, Min(closers) - 1))
              /\ body = Join(<<"\n">>,
                             DropLeadingBlank(SubSeq(lines, Min(closers) + 1, Len(lines))))

\* C12 (amended): a delimiter line is a line that is "---" once its
\* surrounding whitespace is stripped. A text whose first line is not a
\* delimiter line has empty metadata and is its own body; otherwise the
\* metadata comes from the lines before the next delimiter line (from all
\* the following lines when there is none) and the body is the lines after
\* it, joined by newlines, without its leading newline characters.
C12_StrippedDelimiter ==
  Parsed =>
    LET lines == SplitLines(text)
        closers == {k \in 2..Len(lines) : Strip(lines[k]) = DELIM}
        close == IF closers = {} THEN Len(lines) + 1 ELSE Min(closers)
    IN IF lines = <<>> \/ Strip(lines[1]) # DELIM
       THEN metadata = EmptyDict /\ body = text
       ELSE /\ metadata = _parse_metadata(SubSeq(lines, 2, close - 1))
            /\ NewlinesRemoved(Join(<<"\n">>, SubSeq(lines, close + 1, Len(lines))), body)

\* a front matter between delimiter lines with spaces around them, with a
\* title, before a body that lost a leading empty line
C12_Witness ==
  /\ Parsed
  /\ LET lines == SplitLines(text)
     IN /\ Len(lines) = MaxLines
        /\ lines[1] # DELIM /\ Strip(lines[1]) = DELIM
        /\ Strip(lines[2]) = DELIM
        /\ lines[3] = <<>>
  /\ body # <<>>
  /\ body # text

\* C13 as stated: the title is the front-matter title when present; else
\* the first body line that starts with "#", without its leading "#" and
\* the space characters after them; else the base name of the file without
\* its extension.
C13_FirstPresentSource ==
  Parsed =>
    LET lines == SplitLines(body)
        headings == {k \in 1..Len(lines) : lines[k] # <<>> /\ lines[k][1] = "#"}
    IN title = IF KEY_TITLE \in DOMAIN metadata THEN metadata[KEY_TITLE]
               ELSE IF headings # {}
                    THEN DropLeading(DropLeading(lines[Min(headings)], {"#"}), {" "})
               ELSE Stem(note_path)

\* C13 (amended): the title is the front-matter title when present and not
\* empty; else what the first body line that starts with "#" once its
\* surrounding whitespace is stripped leaves without its leading "#" and
\* space characters, when that is not empty; else the base name of the
\* file without its extension.
C13_FirstNonEmptySource ==
  Parsed =>
    LET lines == SplitLines(body)
        headings == {k \in 1..Len(lines) :
                       Strip(lines[k]) # <<>> /\ Strip(lines[k])[1] = "#"}
        heading == IF headings = {} THEN <<>>
                   ELSE DropLeading(Strip(lines[Min(headings)]), {"#", " "})
    IN title = IF KEY_TITLE \in DOMAIN metadata /\ metadata[KEY_TITLE] # <<>>
               THEN metadata[KEY_TITLE]
               ELSE IF heading # <<>> THEN heading
               ELSE Stem(note_path)

\* a note with an empty front-matter title that takes its title from a
\* heading of its body
C13_Witness ==
  /\ Parsed
  /\ KEY_TITLE \in DOMAIN metadata
  /\ metadata[KEY_TITLE] = <<>>
  /\ title # <<>>
  /\ title # Stem(note_path)

====
